---------------------------- MODULE Spec2Model ----------------------------
(***************************************************************************)
(* Model of the Minesweeper knowledge base of src/minesweeper.py:          *)
(* class Sentence, class MinesweeperAI and the board queries of class      *)
(* Minesweeper that feed it.                                               *)
(*                                                                         *)
(* add_knowledge is modelled statement by statement: one step for the      *)
(* prologue (lines 193-212), one step per mark_safe / mark_mine call of    *)
(* the re-evaluation loop (lines 214-220), one step per iteration of the   *)
(* outer and of the inner loop of the pairwise scan (lines 225-241), and   *)
(* the final extend (line 243).  Python's list iterator is an index into   *)
(* the live list, so removing elements while iterating shifts the          *)
(* elements under the index; list.remove(x) deletes the first element      *)
(* equal to x (Sentence.__eq__) and raises ValueError when there is none.  *)
(***************************************************************************)
EXTENDS Integers, Sequences, FiniteSets, TLC

\* ------------------------------------------------------------------ bounds
\* the board: Height rows, Width columns, at most MaxMines mines
Height == 2
Width == 3
MaxMines == 1
\* truthful play: at most MaxCalls calls of add_knowledge (Spec), at most
\* MaxDeepCalls (SpecDeep)
MaxCalls == 2
MaxDeepCalls == 4
\* arbitrary calls: at most MaxAnyCalls calls, reported counts 0 .. MaxCount
MaxAnyCalls == 2
MaxCount == 1

\* --------------------------------------------------------------- the board
Cells == (0 .. Height - 1) \X (0 .. Width - 1)

\* one cell outside the grid, for calls with arbitrary arguments
OutCell == <<Height, 0>>

ArgCells == Cells \cup {OutCell}

\* range(cell[0]-1, cell[0]+2) x range(cell[1]-1, cell[1]+2)
Window(c) == ((c[1] - 1) .. (c[1] + 1)) \X ((c[2] - 1) .. (c[2] + 1))

InBounds(d) == d[1] >= 0 /\ d[2] >= 0 /\ d[1] < Height /\ d[2] < Width

\* Minesweeper.nearby_mines: mines in the window, the cell itself ignored
nearby_mines(b, c) ==
    Cardinality({d \in Window(c) : d # c /\ InBounds(d) /\ d \in b})

\* ---------------------------------------------------------------- Sentence
Sentence(cs, n) == [cells |-> cs, count |-> n]

NoSentence == Sentence({}, 0)

\* mutant: >= instead of ==
known_mines_ge(s) == IF Cardinality(s.cells) >= s.count THEN s.cells ELSE {}

known_mines(s) == IF Cardinality(s.cells) = s.count THEN s.cells ELSE {}

\* mutant: <= 1 instead of == 0
known_safes_le1(s) == IF s.count <= 1 THEN s.cells ELSE {}

known_safes(s) == IF s.count = 0 THEN s.cells ELSE {}

\* mutant: the count is decremented whether or not the cell is present
Sentence_mark_mine_always(s, c) == Sentence(s.cells \ {c}, s.count - 1)

\* mutant: the count is not decremented
Sentence_mark_mine_nodec(s, c) ==
    IF c \in s.cells THEN Sentence(s.cells \ {c}, s.count) ELSE s

Sentence_mark_mine(s, c) ==
    IF c \in s.cells THEN Sentence(s.cells \ {c}, s.count - 1) ELSE s

\* mutant: the cell is not removed
Sentence_mark_safe_keep(s, c) == s

Sentence_mark_safe(s, c) ==
    IF c \in s.cells THEN Sentence(s.cells \ {c}, s.count) ELSE s

\* ------------------------------------------------------------ list helpers
Contains(seq, v) == \E n \in DOMAIN seq : seq[n] = v

FirstIndex(seq, v) == CHOOSE n \in DOMAIN seq :
    seq[n] = v /\ \A m \in 1 .. (n - 1) : seq[m] # v

\* list.remove(v) when v is present: drop the first element equal to v
list_remove(seq, v) ==
    LET p == FirstIndex(seq, v)
    IN  [n \in 1 .. (Len(seq) - 1) |-> IF n < p THEN seq[n] ELSE seq[n + 1]]

\* mutant: the count of the subset is not subtracted
derive_nosub(a, b) == Sentence(a.cells \ b.cells, a.count)

\* lines 238 / 241: the sentence derived from a strict superset a of b
derive(a, b) == Sentence(a.cells \ b.cells, a.count - b.count)

\* the part of a MinesweeperAI that marking reads and writes
KBase(m, s, kn) == [mines |-> m, safes |-> s, knowledge |-> kn]

\* MinesweeperAI.mark_mine
mark_mine(kb, c) ==
    KBase(kb.mines \cup {c}, kb.safes,
          [n \in DOMAIN kb.knowledge |-> Sentence_mark_mine(kb.knowledge[n], c)])

\* mutant: marking safe withdraws an earlier mine mark
mark_safe_unflag(kb, c) ==
    KBase(kb.mines \ {c}, kb.safes \cup {c},
          [n \in DOMAIN kb.knowledge |-> Sentence_mark_safe(kb.knowledge[n], c)])

\* mutant: the cell is not added to safes
mark_safe_noadd(kb, c) ==
    KBase(kb.mines, kb.safes,
          [n \in DOMAIN kb.knowledge |-> Sentence_mark_safe(kb.knowledge[n], c)])

\* MinesweeperAI.mark_safe
mark_safe(kb, c) ==
    KBase(kb.mines, kb.safes \cup {c},
          [n \in DOMAIN kb.knowledge |-> Sentence_mark_safe(kb.knowledge[n], c)])

\* mutant: a cell already played is offered again
safe_moves_any(s, m) == s

\* lines 253-256: the cells make_safe_move can return
safe_moves(s, m) == {x \in s : x \notin m}

\* mutant: a known mine is offered
randSet_nomines(mi, mv) == {d \in Cells : d \notin mv}

\* lines 266-270: the list make_random_move chooses from
randSet(mi, mv) == {d \in Cells : d \notin mi /\ d \notin mv}

\* the cells A.cells - B.cells of the pairs A, B of non-empty sentences of kn
\* with B.cells a strict subset of A.cells and A.count = B.count
ZeroDiff(kn) ==
    UNION {kn[a].cells \ kn[b].cells : <<a, b>> \in
           {p \in (DOMAIN kn) \X (DOMAIN kn) :
                /\ kn[p[2]].cells # {}
                /\ kn[p[2]].cells \subseteq kn[p[1]].cells
                /\ kn[p[2]].cells # kn[p[1]].cells
                /\ kn[p[1]].count = kn[p[2]].count}}

\* ------------------------------------------------------------------- state
VARIABLES
    board,          \* Minesweeper.mines: the cells that really hold a mine
    moves_made,     \* MinesweeperAI.moves_made
    mines,          \* MinesweeperAI.mines
    safes,          \* MinesweeperAI.safes
    knowledge,      \* MinesweeperAI.knowledge, a list of Sentences
    pc,             \* position inside add_knowledge, "idle" between calls
    calls,          \* number of calls made so far
    op,             \* the operation called last
    ret,            \* its return value: {} for None, {c} for a cell
    cell,           \* add_knowledge: the argument cell
    count,          \* add_knowledge: the local count after lines 199-206
    adjCells,       \* add_knowledge: the local adjCells after lines 199-206
    k,              \* index of the iterator of the loop at line 214
    todo,           \* cells of the inner for at 216 / 219 not yet visited
    i,              \* index of the iterator of the loop at line 225
    j,              \* index of the iterator of the loop at line 228
    sentence,       \* loop variable of line 225
    newKnowledge,   \* add_knowledge: the local newKnowledge
    owed,           \* history: ZeroDiff of every list held during the call
    scanned         \* history: knowledge when the scan began at line 224

vars == <<board, moves_made, mines, safes, knowledge, pc, calls, op, ret,
          cell, count, adjCells, k, todo, i, j, sentence, newKnowledge,
          owed, scanned>>

KB == KBase(mines, safes, knowledge)

\* the history variable follows knowledge while add_knowledge is executing
Track == owed' = IF pc' = "idle" THEN owed ELSE owed \cup ZeroDiff(knowledge')

ai == <<moves_made, mines, safes, knowledge>>

locals == <<cell, count, adjCells, k, todo, i, j, sentence, newKnowledge>>

\* MinesweeperAI.__init__ ; the board holds at most MaxMines mines
InitAI ==
    /\ moves_made = {}
    /\ mines = {}
    /\ safes = {}
    /\ knowledge = <<>>
    /\ pc = "idle"
    /\ calls = 0
    /\ op = "init"
    /\ ret = {}
    /\ cell = <<0, 0>>
    /\ count = 0
    /\ adjCells = {}
    /\ k = 0
    /\ todo = {}
    /\ i = 0
    /\ j = 0
    /\ sentence = NoSentence
    /\ newKnowledge = <<>>
    /\ owed = {}
    /\ scanned = <<>>

Init ==
    /\ board \in {b \in SUBSET Cells : Cardinality(b) <= MaxMines}
    /\ InitAI

InitAny ==
    /\ board = {}
    /\ InitAI

\* ----------------------------------------------------------- add_knowledge
\* mutant: the known mines among the neighbours are not taken off the count
add_knowledge_nodec(c, n) ==
    /\ pc = "idle"
    /\ LET kb == mark_safe(KB, c)
           open == {d \in Window(c) : InBounds(d) /\ d \notin kb.safes}
           adj == {d \in open : d \notin kb.mines}
       IN  /\ moves_made' = moves_made \cup {c}
           /\ mines' = kb.mines
           /\ safes' = kb.safes
           /\ knowledge' = Append(kb.knowledge, Sentence(adj, n))
           /\ cell' = c
           /\ count' = n
           /\ adjCells' = adj
           /\ owed' = ZeroDiff(Append(kb.knowledge, Sentence(adj, n)))
    /\ op' = "add_knowledge"
    /\ ret' = {}
    /\ k' = 1
    /\ pc' = "known_safes"
    /\ calls' = calls + 1
    /\ UNCHANGED <<board, todo, i, j, sentence, newKnowledge, scanned>>

\* lines 193-212: record the move, mark it safe, build and append the sentence
add_knowledge(c, n) ==
    /\ pc = "idle"
    /\ LET kb == mark_safe(KB, c)
           open == {d \in Window(c) : InBounds(d) /\ d \notin kb.safes}
           adj == {d \in open : d \notin kb.mines}
           cnt == n - Cardinality({d \in open : d \in kb.mines})
       IN  /\ moves_made' = moves_made \cup {c}
           /\ mines' = kb.mines
           /\ safes' = kb.safes
           /\ knowledge' = Append(kb.knowledge, Sentence(adj, cnt))
           /\ cell' = c
           /\ count' = cnt
           /\ adjCells' = adj
           /\ owed' = ZeroDiff(Append(kb.knowledge, Sentence(adj, cnt)))
    /\ op' = "add_knowledge"
    /\ ret' = {}
    /\ k' = 1
    /\ pc' = "known_safes"
    /\ calls' = calls + 1
    /\ UNCHANGED <<board, todo, i, j, sentence, newKnowledge, scanned>>

\* line 214-215: next sentence of the re-evaluation loop, or on to line 224
Reevaluate ==
    /\ pc = "known_safes"
    /\ IF k > Len(knowledge)
       THEN /\ pc' = "outer"
            /\ i' = 1
            /\ newKnowledge' = <<>>
            /\ k' = 0
            /\ todo' = {}
            /\ scanned' = knowledge
       ELSE /\ pc' = "mark_safe"
            /\ todo' = known_safes(knowledge[k])
            /\ UNCHANGED <<i, newKnowledge, k, scanned>>
    /\ UNCHANGED <<board, ai, calls, op, ret, cell, count, adjCells, j,
                   sentence, owed>>

\* lines 216-218: one self.mark_safe(safe), then known_mines() of line 218
MarkSafeStep ==
    /\ pc = "mark_safe"
    /\ IF todo = {}
       THEN /\ todo' = known_mines(knowledge[k])
            /\ pc' = "mark_mine"
            /\ UNCHANGED <<mines, safes, knowledge>>
       ELSE \E x \in todo :
            /\ mines' = mark_safe(KB, x).mines
            /\ safes' = mark_safe(KB, x).safes
            /\ knowledge' = mark_safe(KB, x).knowledge
            /\ todo' = todo \ {x}
            /\ pc' = pc
    /\ Track
    /\ UNCHANGED <<board, moves_made, calls, op, ret, cell, count,
                   adjCells, k, i, j, sentence, newKnowledge, scanned>>

\* mutant: the loop at line 214 visits the same sentence again
MarkMineStep_noadvance ==
    /\ pc = "mark_mine"
    /\ IF todo = {}
       THEN /\ k' = k
            /\ pc' = "known_safes"
            /\ UNCHANGED <<mines, safes, knowledge, todo>>
       ELSE \E x \in todo :
            /\ mines' = mark_mine(KB, x).mines
            /\ safes' = mark_mine(KB, x).safes
            /\ knowledge' = mark_mine(KB, x).knowledge
            /\ todo' = todo \ {x}
            /\ UNCHANGED <<k, pc>>
    /\ Track
    /\ UNCHANGED <<board, moves_made, calls, op, ret, cell, count,
                   adjCells, i, j, sentence, newKnowledge, scanned>>

\* lines 219-220: one self.mark_mine(mine)
MarkMineStep ==
    /\ pc = "mark_mine"
    /\ IF todo = {}
       THEN /\ k' = k + 1
            /\ pc' = "known_safes"
            /\ UNCHANGED <<mines, safes, knowledge, todo>>
       ELSE \E x \in todo :
            /\ mines' = mark_mine(KB, x).mines
            /\ safes' = mark_mine(KB, x).safes
            /\ knowledge' = mark_mine(KB, x).knowledge
            /\ todo' = todo \ {x}
            /\ UNCHANGED <<k, pc>>
    /\ Track
    /\ UNCHANGED <<board, moves_made, calls, op, ret, cell, count,
                   adjCells, i, j, sentence, newKnowledge, scanned>>

\* lines 225-227: next sentence of the outer loop (an empty one is removed),
\* or, when the iterator is exhausted, line 243 and the return
Outer ==
    /\ pc = "outer"
    /\ IF i > Len(knowledge)
       THEN /\ knowledge' = knowledge \o newKnowledge
            /\ pc' = "idle"
            /\ i' = 0
            /\ j' = 0
            /\ sentence' = NoSentence
       ELSE /\ sentence' = knowledge[i]
            /\ i' = i + 1
            /\ j' = 1
            /\ IF knowledge[i].cells = {}
               THEN IF Contains(knowledge, knowledge[i])
                    THEN knowledge' = list_remove(knowledge, knowledge[i])
                         /\ pc' = "inner"
                    ELSE UNCHANGED knowledge /\ pc' = "error"
               ELSE UNCHANGED knowledge /\ pc' = "inner"
    /\ Track
    /\ UNCHANGED <<board, moves_made, mines, safes, calls, op, ret, cell,
                   count, adjCells, k, todo, newKnowledge, scanned>>

\* the effect of lines 229-241 for one otherSentence on (knowledge,
\* newKnowledge); ok is FALSE when a list.remove raised ValueError
InnerBody(kn, nk, s, o) ==
    LET kn1 == IF o.cells = {} THEN list_remove(kn, o) ELSE kn
    IN  IF s.cells # {} /\ o.cells # {} /\ s # o
        THEN IF Cardinality(s.cells) > Cardinality(o.cells)
                /\ o.cells \subseteq s.cells
             THEN IF Contains(kn1, s)
                  THEN [ok |-> TRUE, kn |-> list_remove(kn1, s),
                        nk |-> Append(nk, derive(s, o))]
                  ELSE [ok |-> FALSE, kn |-> kn1, nk |-> nk]
             ELSE IF Cardinality(o.cells) > Cardinality(s.cells)
                     /\ s.cells \subseteq o.cells
                  THEN [ok |-> TRUE, kn |-> list_remove(kn1, o),
                        nk |-> Append(nk, derive(o, s))]
                  ELSE [ok |-> TRUE, kn |-> kn1, nk |-> nk]
        ELSE [ok |-> TRUE, kn |-> kn1, nk |-> nk]

\* lines 228-241: one iteration of the inner loop, or back to the outer loop
Inner ==
    /\ pc = "inner"
    /\ IF j > Len(knowledge)
       THEN /\ pc' = "outer"
            /\ j' = 0
            /\ UNCHANGED <<knowledge, newKnowledge>>
       ELSE LET r == InnerBody(knowledge, newKnowledge, sentence, knowledge[j])
            IN  /\ knowledge' = r.kn
                /\ newKnowledge' = r.nk
                /\ j' = j + 1
                /\ pc' = IF r.ok THEN "inner" ELSE "error"
    /\ Track
    /\ UNCHANGED <<board, moves_made, mines, safes, calls, op, ret, cell,
                   count, adjCells, k, todo, i, sentence, scanned>>

\* ------------------------------------------------------------ truthful play
\* the driver reveals a cell that is not a mine and reports nearby_mines
Observe ==
    /\ calls < MaxCalls
    /\ \E c \in Cells \ board : add_knowledge(c, nearby_mines(board, c))

\* ------------------------------------------------- calls with any arguments
AnyAddKnowledge ==
    /\ calls < MaxAnyCalls
    /\ \E c \in ArgCells, n \in 0 .. MaxCount : add_knowledge(c, n)

\* MinesweeperAI.mark_mine called from outside
CallMarkMine ==
    /\ pc = "idle"
    /\ calls < MaxAnyCalls
    /\ \E c \in ArgCells :
        /\ mines' = mark_mine(KB, c).mines
        /\ safes' = mark_mine(KB, c).safes
        /\ knowledge' = mark_mine(KB, c).knowledge
    /\ calls' = calls + 1
    /\ op' = "mark_mine"
    /\ ret' = {}
    /\ UNCHANGED <<board, moves_made, pc, locals, owed, scanned>>

\* MinesweeperAI.mark_safe called from outside
CallMarkSafe ==
    /\ pc = "idle"
    /\ calls < MaxAnyCalls
    /\ \E c \in ArgCells :
        /\ mines' = mark_safe(KB, c).mines
        /\ safes' = mark_safe(KB, c).safes
        /\ knowledge' = mark_safe(KB, c).knowledge
    /\ calls' = calls + 1
    /\ op' = "mark_safe"
    /\ ret' = {}
    /\ UNCHANGED <<board, moves_made, pc, locals, owed, scanned>>

\* MinesweeperAI.make_safe_move: the first x of the iteration over safes
\* that is not in moves_made; the iteration order of a set is arbitrary
make_safe_move ==
    /\ pc = "idle"
    /\ calls < MaxAnyCalls
    /\ IF safe_moves(safes, moves_made) = {}
       THEN ret' = {}
       ELSE \E x \in safe_moves(safes, moves_made) : ret' = {x}
    /\ op' = "make_safe_move"
    /\ calls' = calls + 1
    /\ UNCHANGED <<board, ai, pc, locals, owed, scanned>>

\* MinesweeperAI.make_random_move: random.choice over the eligible cells
make_random_move ==
    /\ pc = "idle"
    /\ calls < MaxAnyCalls
    /\ IF randSet(mines, moves_made) = {}
       THEN ret' = {}
       ELSE \E x \in randSet(mines, moves_made) : ret' = {x}
    /\ op' = "make_random_move"
    /\ calls' = calls + 1
    /\ UNCHANGED <<board, ai, pc, locals, owed, scanned>>

NextAny ==
    \/ AnyAddKnowledge
    \/ CallMarkMine
    \/ CallMarkSafe
    \/ make_safe_move
    \/ make_random_move
    \/ Reevaluate
    \/ MarkSafeStep
    \/ MarkMineStep
    \/ Outer
    \/ Inner

\* truthful play, up to MaxCalls observations
Next ==
    \/ Observe
    \/ Reevaluate
    \/ MarkSafeStep
    \/ MarkMineStep
    \/ Outer
    \/ Inner

Spec == Init /\ [][Next]_vars

\* truthful play, up to MaxDeepCalls observations
ObserveDeep ==
    /\ calls < MaxDeepCalls
    /\ \E c \in Cells \ board : add_knowledge(c, nearby_mines(board, c))

NextDeep ==
    \/ ObserveDeep
    \/ Reevaluate
    \/ MarkSafeStep
    \/ MarkMineStep
    \/ Outer
    \/ Inner

SpecDeep == Init /\ [][NextDeep]_vars

SpecAny == InitAny /\ [][NextAny]_vars

\* the moves of a game in which every observation reports the least or the
\* greatest count its cell can have: no neighbour or every neighbour a mine
ObserveAll ==
    /\ calls < MaxAnyCalls
    /\ \E c \in Cells :
        \E n \in {0, Cardinality({d \in Window(c) : d # c /\ InBounds(d)})} :
            add_knowledge(c, n)

NextMoves ==
    \/ ObserveAll
    \/ make_safe_move
    \/ make_random_move
    \/ Reevaluate
    \/ MarkSafeStep
    \/ MarkMineStep
    \/ Outer
    \/ Inner

SpecMoves == InitAny /\ [][NextMoves]_vars

\* the first observation of a game, truthful for the board, on an object on
\* which mark_mine and mark_safe are called from outside with any cells
ObserveFirst ==
    /\ moves_made = {}
    /\ \E c \in Cells \ board : add_knowledge(c, nearby_mines(board, c))

NextMarked ==
    \/ CallMarkMine
    \/ CallMarkSafe
    \/ ObserveFirst
    \/ Reevaluate
    \/ MarkSafeStep
    \/ MarkMineStep
    \/ Outer
    \/ Inner

SpecMarked == InitAny /\ [][NextMarked]_vars

\* a call that has started keeps executing: the statements of add_knowledge
\* run one after the other until it returns or raises
Step == Reevaluate \/ MarkSafeStep \/ MarkMineStep \/ Outer \/ Inner

\* observations with any arguments, each call run to its end
NextObs ==
    \/ AnyAddKnowledge
    \/ Reevaluate
    \/ MarkSafeStep
    \/ MarkMineStep
    \/ Outer
    \/ Inner

FairSpecObs == InitAny /\ [][NextObs]_vars /\ WF_vars(Step)

\* ------------------------------------------------------------ the claims
Returned == pc = "idle" /\ calls > 0

Live == {knowledge[n] : n \in DOMAIN knowledge}

\* C1: under truthful play no cell of safes holds a mine and every cell of
\* mines does; a sentence of knowledge with count = len(cells) has only real
\* mines, one with count = 0 has none, and no cell make_safe_move can return
\* holds a mine.
C1_Soundness ==
    /\ safes \cap board = {}
    /\ mines \subseteq board
    /\ \A s \in Live :
        /\ Cardinality(s.cells) = s.count => s.cells \subseteq board
        /\ s.count = 0 => s.cells \cap board = {}
    /\ safe_moves(safes, moves_made) \cap board = {}

C1_Witness ==
    /\ pc = "mark_mine"
    /\ todo # {}
    /\ safe_moves(safes, moves_made) # {}
    /\ \E s \in Live : s.cells # {} /\ Cardinality(s.cells) = s.count

\* C2: under truthful play mines and safes are disjoint in every state, the
\* states between two statements of add_knowledge included.
C2_Disjoint == mines \cap safes = {}

C2_Witness ==
    /\ pc = "mark_mine"
    /\ mines # {}
    /\ safes \ moves_made # {}

\* C3: whatever is called, with whatever arguments, every step leaves
\* moves_made, mines and safes supersets of what they were.
C3_AppendOnly ==
    [][/\ moves_made \subseteq moves_made'
       /\ mines \subseteq mines'
       /\ safes \subseteq safes']_vars

C3_Witness ==
    /\ Returned
    /\ op = "add_knowledge"
    /\ cell \in mines \cap safes
    /\ cell \in moves_made

\* C4: when add_knowledge returns, no sentence of knowledge with cells has
\* count = 0 or count = len(cells).
C4_Fixpoint ==
    Returned => \A s \in Live :
        s.cells # {} => s.count # 0 /\ s.count # Cardinality(s.cells)

\* C5: when add_knowledge returns, what the sentence built for the
\* observation determines is recorded: with an adjusted count of 0 every
\* unknown neighbour is in safes and every neighbour is in safes or mines;
\* with an adjusted count equal to the number of unknown neighbours every
\* one of them is in mines.
C5_DirectConclusions ==
    Returned =>
        /\ count = 0 =>
            /\ adjCells \subseteq safes
            /\ {d \in Window(cell) : d # cell /\ InBounds(d)}
                   \subseteq safes \cup mines
        /\ count = Cardinality(adjCells) => adjCells \subseteq mines

C5_Witness ==
    /\ Returned
    /\ count = Cardinality(adjCells)
    /\ adjCells # {}
    /\ adjCells # {d \in Window(cell) : d # cell /\ InBounds(d)}
    /\ adjCells \subseteq mines

\* C6: when add_knowledge returns, every cell of A.cells - B.cells, for
\* sentences A, B held during the call with B.cells a non-empty strict
\* subset of A.cells and A.count = B.count, is in safes.
C6_ZeroDiffApplied == Returned => owed \subseteq safes

\* C7: between calls no cell of mines or safes occurs in a sentence of
\* knowledge.
C7_ResolvedOut ==
    pc = "idle" => \A s \in Live : s.cells \cap (mines \cup safes) = {}

C7_Witness ==
    /\ Returned
    /\ op = "add_knowledge"
    /\ \E n \in DOMAIN newKnowledge : newKnowledge[n] \in Live

\* C8: when add_knowledge returns, knowledge holds no sentence without cells.
C8_NoEmptySentence == Returned => \A s \in Live : s.cells # {}

\* C9: when add_knowledge returns, no two entries of knowledge are equal.
C9_NoDuplicates ==
    Returned => \A a, b \in DOMAIN knowledge :
        a # b => knowledge[a] # knowledge[b]

\* C10: under truthful play every sentence, in knowledge, held by the scan or
\* derived by it, counts the real mines among its cells, so its count lies
\* between 0 and len(cells).
C10_SentencesTrue ==
    \A s \in Live \cup {newKnowledge[n] : n \in DOMAIN newKnowledge}
                  \cup {sentence} :
        /\ Cardinality(s.cells \cap board) = s.count
        /\ 0 <= s.count
        /\ s.count <= Cardinality(s.cells)

C10_Witness ==
    /\ pc = "inner"
    /\ newKnowledge # <<>>
    /\ \E n \in DOMAIN newKnowledge : newKnowledge[n].cells # {}
    /\ \E n \in DOMAIN knowledge : knowledge[n].count > 0

\* C11: every call of add_knowledge, whatever the knowledge base and the
\* observation, comes to an end: its loops finish, by a return or by an
\* exception
C11_Terminates == (pc # "idle") ~> (pc = "idle" \/ pc = "error")

C11_Witness ==
    /\ Returned
    /\ op = "add_knowledge"
    /\ newKnowledge # <<>>
    /\ Len(knowledge) < Len(newKnowledge) + 2


\* C12: make_safe_move returns a cell of safes that is not in moves_made when
\* there is one, None exactly when safes is a subset of moves_made, and
\* leaves moves_made, mines, safes and knowledge as they were.
C12_SafeMove ==
    [][(op' = "make_safe_move" /\ calls' = calls + 1) =>
        /\ UNCHANGED <<moves_made, mines, safes, knowledge>>
        /\ Cardinality(ret') <= 1
        /\ (ret' = {}) <=> (safes \subseteq moves_made)
        /\ \A x \in ret' : x \in safes /\ x \notin moves_made]_vars

C12_Witness ==
    /\ op = "make_safe_move"
    /\ ret # {}
    /\ safes \cap moves_made # {}

\* C13: make_random_move returns an in-bounds cell that is neither in mines
\* nor in moves_made when there is one, None exactly when every in-bounds
\* cell is in mines or in moves_made, and leaves the knowledge base as it was.
C13_RandomMove ==
    [][(op' = "make_random_move" /\ calls' = calls + 1) =>
        /\ UNCHANGED <<moves_made, mines, safes, knowledge>>
        /\ Cardinality(ret') <= 1
        /\ (ret' = {}) <=> (Cells \subseteq mines \cup moves_made)
        /\ \A x \in ret' :
            InBounds(x) /\ x \notin mines /\ x \notin moves_made]_vars

C13_Witness ==
    /\ op = "make_random_move"
    /\ ret = {}
    /\ mines # {}
    /\ moves_made # {}


\* C14: marking is idempotent: for every knowledge base and every cell,
\* mark_mine twice gives the mines, safes and knowledge of mark_mine once,
\* likewise mark_safe, and on a single sentence the second mark_mine or
\* mark_safe with the same cell changes nothing.
C14_Idempotent ==
    \A c \in ArgCells :
        LET mined == mark_mine(KB, c)
            saved == mark_safe(KB, c)
        IN  /\ mark_mine(mined, c) = mined
            /\ mark_safe(saved, c) = saved
            /\ \A s \in Live :
                /\ Sentence_mark_mine(Sentence_mark_mine(s, c), c)
                       = Sentence_mark_mine(s, c)
                /\ Sentence_mark_safe(Sentence_mark_safe(s, c), c)
                       = Sentence_mark_safe(s, c)

C14_Witness ==
    /\ pc = "mark_mine"
    /\ todo # {}
    /\ mines # {}
    /\ \E s \in Live : s.cells # {} /\ s.count > 0


\* C17: mark_mine(cell) adds cell to mines and, in every sentence that held
\* cell, removes it and lowers the count by exactly 1, leaving the other
\* sentences, safes and moves_made alone; mark_safe(cell) adds cell to safes
\* and removes it from every sentence that held it, leaving every count,
\* mines and moves_made alone.
MineEffect(c) ==
    /\ mines' = mines \cup {c}
    /\ safes' = safes
    /\ moves_made' = moves_made
    /\ Len(knowledge') = Len(knowledge)
    /\ \A n \in DOMAIN knowledge :
        IF c \in knowledge[n].cells
        THEN /\ knowledge'[n].cells = knowledge[n].cells \ {c}
             /\ knowledge'[n].count = knowledge[n].count - 1
        ELSE knowledge'[n] = knowledge[n]

SafeEffect(c) ==
    /\ safes' = safes \cup {c}
    /\ mines' = mines
    /\ moves_made' = moves_made
    /\ Len(knowledge') = Len(knowledge)
    /\ \A n \in DOMAIN knowledge :
        /\ knowledge'[n].cells = knowledge[n].cells \ {c}
        /\ knowledge'[n].count = knowledge[n].count

C17_MarkEffect ==
    [][/\ (op' = "mark_mine" /\ calls' = calls + 1) =>
            \E c \in ArgCells : MineEffect(c)
       /\ (op' = "mark_safe" /\ calls' = calls + 1) =>
            \E c \in ArgCells : SafeEffect(c)
       /\ (pc = "mark_mine" /\ todo' # todo) =>
            \E c \in todo : todo' = todo \ {c} /\ MineEffect(c)
       /\ (pc = "mark_safe" /\ pc' = "mark_safe") =>
            \E c \in todo : todo' = todo \ {c} /\ SafeEffect(c)]_vars

C17_Witness ==
    /\ pc = "idle"
    /\ op = "mark_safe"
    /\ \E s \in Live : s.count = 1 /\ Cardinality(s.cells) = 2


\* C15: for every two distinct non-empty sentences A, B that were in knowledge
\* when the pairwise scan began, with B.cells a strict subset of A.cells,
\* when add_knowledge returns knowledge holds a sentence with cells
\* A.cells - B.cells and count A.count - B.count, and A is no longer in it.
C15_EveryPair ==
    (Returned /\ op = "add_knowledge") =>
        \A a, b \in DOMAIN scanned :
            (/\ scanned[b].cells # {}
             /\ scanned[b].cells \subseteq scanned[a].cells
             /\ scanned[b].cells # scanned[a].cells) =>
                /\ \E n \in DOMAIN knowledge :
                    /\ knowledge[n].cells = scanned[a].cells \ scanned[b].cells
                    /\ knowledge[n].count = scanned[a].count - scanned[b].count
                /\ \A n \in DOMAIN knowledge : knowledge[n] # scanned[a]


\* the state right after line 212 appended the sentence of the observation
Appended == op = "add_knowledge" /\ pc = "known_safes" /\ k = 1

Neighbours(c) == {d \in Window(c) : d # c /\ InBounds(d)}

C18_FailFast ==
    pc = "idle" =>
        /\ mines \cap safes = {}
        /\ \A s \in Live : 0 <= s.count /\ s.count <= Cardinality(s.cells)


\* C19: under truthful play add_knowledge never aborts with an exception:
\* every list.remove of the pairwise scan finds its value in knowledge.
C19_NoAbort == pc # "error"

=============================================================================
